---- MODULE Spec2Model ----
(***************************************************************************)
(* Model of models/gesture_model/tflite_to_onnx.py: bulk_convert_tf2onnx   *)
(* globs ./tflite/*.tflite once, then for each matched file prints a       *)
(* "Converting" notice, runs `python -m tf2onnx.convert` as a subprocess   *)
(* (blocking, output captured) and prints a success or an error notice     *)
(* depending on the exit code.                                             *)
(*                                                                         *)
(* A file name is the sequence of its dot-separated segments:              *)
(*   "a.tflite" = <<"a","tflite">>, ".tflite" = <<"","tflite">>,           *)
(*   ".tflite.tflite" = <<"","tflite","tflite">>.                          *)
(* A path is a record [dir |-> sequence of directory parts, name |-> n].   *)
(***************************************************************************)
EXTENDS Integers, Sequences, FiniteSets, TLC

\* ---------------------------------------------------------------- bounds
MaxFiles == 3        \* most entries the source directory holds at a time
MaxEnvChanges == 1   \* directory changes made by other processes during a run

\* ------------------------------------------------------- the environment
\* the names an entry of ./tflite may have: "a.tflite", ".tflite",
\* ".tflite.tflite", "a.txt" and "tflite"
FileNames ==
  { <<"a", "tflite">>, <<"", "tflite">>, <<"", "tflite", "tflite">>,
    <<"a", "txt">>, <<"tflite">> }

DirStates == {"absent", "unreadable", "present"}
ReturnCodes == {0, 1, 2}
Texts == {"", "text"}
NoModuleText == "No module named 'tf2onnx'"
NoResult == [returncode |-> -1, stdout |-> "", stderr |-> ""]
NoPath == [dir |-> <<>>, name |-> <<>>]

\* ------------------------------------------------------------- pathlib
source_dir == <<"tflite">>
output_dir == <<>>
OnnxSuffix == "onnx"

\* PurePath.suffix is non-empty iff the last dot is neither the first nor
\* the last character of the name.
HasSuffix(name) ==
  /\ Len(name) >= 2
  /\ name[Len(name)] # ""
  /\ ~(Len(name) = 2 /\ name[1] = "")

Stem(name) == IF HasSuffix(name) THEN SubSeq(name, 1, Len(name) - 1) ELSE name

WithSuffix(name, suffix) ==
  IF HasSuffix(name) THEN SubSeq(name, 1, Len(name) - 1) \o <<suffix>>
  ELSE name \o <<suffix>>

\* fnmatch of "*.tflite": the name ends with ".tflite"
Matches(name) == Len(name) >= 2 /\ name[Len(name)] = "tflite"

\* variant: the listing is taken without looking at the state of the directory
GlobSetUnchecked(ds, files) == {n \in files : Matches(n)}

\* Path.glob: nothing for a directory that is missing or cannot be listed
GlobSet(ds, files) == IF ds = "present" THEN {n \in files : Matches(n)} ELSE {}

\* variant: the empty case is not told apart
NoneFoundNever(found) == FALSE

\* `if not tflite_files`
NoneFound(found) == found = {}

\* the listing comes in the order the file system gives it
Orderings(S) ==
  {q \in [1..Cardinality(S) -> S] : \A i, j \in 1..Cardinality(S) : q[i] = q[j] => i = j}

Absolute(p) == [p EXCEPT !.dir = <<"cwd">> \o p.dir]

\* ------------------------------------------------- the body of the loop
OnnxFile(tflite_name) == [dir |-> output_dir, name |-> WithSuffix(tflite_name, OnnxSuffix)]

TfliteFile(tflite_name) == [dir |-> source_dir, name |-> tflite_name]

Cmd(tflite_file, onnx_path) ==
  [tflite |-> tflite_file, output |-> onnx_path, opset |-> 13]

\* variant: success is read off the captured error text
IsSuccessByStderr(res) == res.stderr = ""

IsSuccess(res) == res.returncode = 0

ConvertingNotice(tflite_name, onnx_path) ==
  [kind |-> "Converting", src |-> tflite_name, path |-> [dir |-> <<>>, name |-> onnx_path.name], text |-> ""]

NoFilesNotice ==
  [kind |-> "NoFiles", src |-> <<>>, path |-> Absolute([dir |-> source_dir, name |-> <<>>]), text |-> ""]

\* variant: a failure is not printed
ReportNoticesQuiet(tflite_name, onnx_path, res) ==
  IF res.returncode = 0
  THEN << [kind |-> "Success", src |-> <<>>, path |-> Absolute(onnx_path), text |-> ""] >>
  ELSE << >>

ReportNotices(tflite_name, onnx_path, res) ==
  IF IsSuccess(res)
  THEN << [kind |-> "Success", src |-> <<>>, path |-> Absolute(onnx_path), text |-> ""] >>
  ELSE << [kind |-> "Error", src |-> tflite_name, path |-> NoPath, text |-> ""],
          [kind |-> "Stderr", src |-> <<>>, path |-> NoPath, text |-> res.stderr] >>

StatusOf(res) == IF IsSuccess(res) THEN "Succeeded" ELSE "Failed"

\* the for statement: the next element, or the end of the function
\* variant: a failed file is tried again
NextIdxRetry(i, res) == IF res.returncode = 0 THEN i + 1 ELSE i

NextIdx(i, res) == i + 1

\* variant: the loop is left at the first failure
NextPcBreak(i, n, res) == IF i < n /\ res.returncode = 0 THEN "loop" ELSE "done"

NextPc(i, n, res) == IF i < n THEN "loop" ELSE "done"

\* variant: the child is started and not waited for
AwaitedNot(running, p) == running

\* subprocess.run waits for the child: it is no longer running on return
Awaited(running, p) == running \ {p}

\* ----------------------------------------------------------------- state
VARIABLES
  dirState,          \* ./tflite: absent, unreadable or present
  dirFiles,          \* names of the entries of ./tflite
  tf2onnx_installed, \* can the interpreter import tf2onnx.convert
  envChanges,        \* directory changes made so far by other processes
  pc,                \* position of bulk_convert_tf2onnx
  tflite_files,      \* the list built at line 21
  listed,            \* the entries ./tflite held when line 21 ran
  idx,               \* position of the for loop in tflite_files
  onnx_file,         \* the target of the current iteration
  result,            \* the CompletedProcess of the current iteration
  running,           \* converter subprocesses in flight (their commands)
  invocations,       \* commands handed to subprocess.run, in order
  returncodes,       \* exit codes of the completed subprocesses, in order
  status,            \* outcome reported for each element of tflite_files
  written,           \* <<target name, source name>> of each file the tool wrote
  transcript         \* what was printed

vars == << dirState, dirFiles, tf2onnx_installed, envChanges, pc, tflite_files,
           listed, idx, onnx_file, result, running, invocations, returncodes,
           status, written, transcript >>

env == << dirState, tf2onnx_installed >>

Terminal == {"done", "raised"}

Init ==
  /\ dirState \in DirStates
  /\ dirFiles \in {S \in SUBSET FileNames : Cardinality(S) <= MaxFiles}
  /\ dirState = "absent" => dirFiles = {}
  /\ tf2onnx_installed \in BOOLEAN
  /\ envChanges = 0
  /\ pc = "start"
  /\ tflite_files = <<>>
  /\ listed = {}
  /\ idx = 0
  /\ onnx_file = NoPath
  /\ result = NoResult
  /\ running = {}
  /\ invocations = <<>>
  /\ returncodes = <<>>
  /\ status = <<>>
  /\ written = {}
  /\ transcript = <<>>

\* lines 21-25: the glob finds nothing; print and return
DiscoverNone ==
  /\ pc = "start"
  /\ NoneFound(GlobSet(dirState, dirFiles))
  /\ tflite_files' = <<>>
  /\ listed' = dirFiles
  /\ transcript' = Append(transcript, NoFilesNotice)
  /\ pc' = "done"
  /\ UNCHANGED << env, dirFiles, envChanges, idx, onnx_file, result, running,
                  invocations, returncodes, status, written >>

\* lines 21-27: the glob finds files; enter the loop (a for statement over
\* an empty list ends at once)
DiscoverSome ==
  /\ pc = "start"
  /\ ~NoneFound(GlobSet(dirState, dirFiles))
  /\ \E q \in Orderings(GlobSet(dirState, dirFiles)) :
       /\ tflite_files' = q
       /\ status' = [i \in 1..Len(q) |-> "Pending"]
       /\ pc' = IF q = <<>> THEN "done" ELSE "loop"
  /\ listed' = dirFiles
  /\ idx' = 1
  /\ UNCHANGED << env, dirFiles, envChanges, onnx_file, result, running,
                  invocations, returncodes, written, transcript >>

\* lines 27-39: derive the target, print the progress notice, build cmd
Converting ==
  /\ pc = "loop"
  /\ onnx_file' = OnnxFile(tflite_files[idx])
  /\ transcript' = Append(transcript, ConvertingNotice(tflite_files[idx], onnx_file'))
  /\ pc' = "run"
  /\ UNCHANGED << env, dirFiles, envChanges, tflite_files, listed, idx, result,
                  running, invocations, returncodes, status, written >>

\* line 41: subprocess.run starts the child process
Launch ==
  /\ pc = "run"
  /\ LET cmd == Cmd(TfliteFile(tflite_files[idx]), onnx_file) IN
       /\ invocations' = Append(invocations, cmd)
       /\ running' = running \cup {cmd}
  /\ pc' = "wait"
  /\ UNCHANGED << env, dirFiles, envChanges, tflite_files, listed, idx, onnx_file,
                  result, returncodes, status, written, transcript >>

\* line 41: subprocess.run cannot start the child (OSError); nothing catches it
LaunchRaises ==
  /\ pc = "run"
  /\ invocations' = Append(invocations, Cmd(TfliteFile(tflite_files[idx]), onnx_file))
  /\ pc' = "raised"
  /\ UNCHANGED << env, dirFiles, envChanges, tflite_files, listed, idx, onnx_file,
                  result, running, returncodes, status, written, transcript >>

\* line 41: the child terminates; subprocess.run returns its exit code and output.
\* Without tf2onnx the interpreter itself exits with 1 and names the module.
Terminate ==
  /\ pc = "wait"
  /\ LET cmd == Cmd(TfliteFile(tflite_files[idx]), onnx_file) IN
       /\ \E rc \in ReturnCodes, out \in Texts, err \in Texts :
            /\ tf2onnx_installed =>
                 (rc = 0 => dirState = "present" /\ cmd.tflite.name \in dirFiles)
            /\ ~tf2onnx_installed => rc = 1 /\ out = ""
            /\ result' = [returncode |-> rc, stdout |-> out,
                          stderr |-> IF tf2onnx_installed THEN err ELSE NoModuleText]
            /\ returncodes' = Append(returncodes, rc)
            /\ written' = IF rc = 0
                          THEN written \cup {<<cmd.output.name, cmd.tflite.name>>}
                          ELSE written
       /\ running' = Awaited(running, cmd)
  /\ pc' = "report"
  /\ UNCHANGED << env, dirFiles, envChanges, tflite_files, listed, idx, onnx_file,
                  invocations, status, transcript >>

\* lines 43-47, then back to line 27
Report ==
  /\ pc = "report"
  /\ transcript' = transcript \o ReportNotices(tflite_files[idx], onnx_file, result)
  /\ status' = [status EXCEPT ![idx] = StatusOf(result)]
  /\ idx' = NextIdx(idx, result)
  /\ pc' = NextPc(idx, Len(tflite_files), result)
  /\ UNCHANGED << env, dirFiles, envChanges, tflite_files, listed, onnx_file, result,
                  running, invocations, returncodes, written >>

\* another process creates an entry in ./tflite while the script runs
EnvAddFile ==
  /\ pc \notin Terminal
  /\ dirState = "present"
  /\ envChanges < MaxEnvChanges
  /\ Cardinality(dirFiles) < MaxFiles
  /\ \E n \in FileNames \ dirFiles : dirFiles' = dirFiles \cup {n}
  /\ envChanges' = envChanges + 1
  /\ UNCHANGED << env, pc, tflite_files, listed, idx, onnx_file, result, running,
                  invocations, returncodes, status, written, transcript >>

\* another process deletes an entry of ./tflite while the script runs
EnvRemoveFile ==
  /\ pc \notin Terminal
  /\ dirState = "present"
  /\ envChanges < MaxEnvChanges
  /\ \E n \in dirFiles : dirFiles' = dirFiles \ {n}
  /\ envChanges' = envChanges + 1
  /\ UNCHANGED << env, pc, tflite_files, listed, idx, onnx_file, result, running,
                  invocations, returncodes, status, written, transcript >>

Step ==
  \/ DiscoverNone
  \/ DiscoverSome
  \/ Converting
  \/ Launch
  \/ LaunchRaises
  \/ Terminate
  \/ Report

Next ==
  \/ Step
  \/ EnvAddFile
  \/ EnvRemoveFile

Spec == Init /\ [][Next]_vars

\* the interpreter keeps executing the script, and every child terminates
FairSpec == Spec /\ WF_vars(Step)

\* ------------------------------------------------------------ properties
Jobs == 1..Len(tflite_files)

Terminated == pc \in Terminal

InvokedName(i) == invocations[i].tflite.name

\* the entries of ./tflite that matched *.tflite when the glob ran
MatchedAtDiscovery ==
  IF dirState = "present"
  THEN {n \in listed : Len(n) >= 2 /\ n[Len(n)] = "tflite"}
  ELSE {}

IsNotice(e) == e.kind \in {"Converting", "Success", "Error"}

\* the transcript without the error text that follows an "Error" line
Notices == SelectSeq(transcript, IsNotice)

AllTerminal == \A i \in Jobs : status[i] \in {"Succeeded", "Failed"}

\* the jobs are the files matched at discovery, and subprocess.run is called
\* for them in discovery order, never twice, never for another file
C1_Safe ==
  /\ pc # "start" =>
       /\ {tflite_files[i] : i \in Jobs} = MatchedAtDiscovery
       /\ Len(tflite_files) = Cardinality(MatchedAtDiscovery)
  /\ Len(invocations) <= Len(tflite_files)
  /\ \A i \in 1..Len(invocations) : InvokedName(i) = tflite_files[i]

C1_Fixed ==
  [][pc # "start" => tflite_files' = tflite_files /\ listed' = listed]_vars

\* C1 as stated: at the end of every run, every discovered file has been
\* invoked exactly once (invocations = matched files, none skipped).
C1_Original ==
  /\ C1_Safe
  /\ Terminated => Len(invocations) = Len(tflite_files)

\* C1 amended: the job set is fixed at the single discovery step; the
\* converter is invoked in discovery order, at most once per discovered file
\* and for no other file; when the run returns normally (no subprocess.run
\* call raised) the number of invocations equals the number of matched files.
C1_Amended ==
  /\ []C1_Safe
  /\ [](pc = "done" => Len(invocations) = Len(tflite_files))
  /\ C1_Fixed

C1_Witness ==
  /\ pc = "done"
  /\ Len(tflite_files) = 3
  /\ Len(invocations) = 3
  /\ GlobSet(dirState, dirFiles) # MatchedAtDiscovery

C2_Inv ==
  \A i \in 1..Len(returncodes) :
    /\ (i < idx /\ returncodes[i] = 0) => status[i] = "Succeeded"
    /\ (pc = "done" /\ returncodes[i] # 0) =>
         \A j \in (i + 1)..Len(tflite_files) :
           /\ j <= Len(invocations)
           /\ InvokedName(j) = tflite_files[j]
           /\ Len(invocations) = Len(tflite_files)
           /\ returncodes[j] = 0 => status[j] = "Succeeded"

C2_Step ==
  (pc = "report" /\ result.returncode # 0 /\ pc' # "report") =>
     /\ idx' = idx + 1
     /\ idx < Len(tflite_files) => pc' = "loop"

\* C2: a non-zero exit code never halts, skips or retries later jobs: after a
\* failed job is reported the loop moves to the next file, every file after a
\* failing one is attempted (once), and a file that exits with 0 ends Succeeded.
C2_NoShortCircuit == []C2_Inv /\ [][C2_Step]_vars

C2_Witness ==
  /\ pc = "done"
  /\ returncodes = <<0, 1, 0>>
  /\ status = <<"Succeeded", "Failed", "Succeeded">>

\* C3: when discovery yields no matching file, the run prints the "No .tflite
\* files found in <path>" message, invokes no subprocess, writes no output
\* file and returns with zero jobs.
C3_NoFiles ==
  (pc # "start" /\ MatchedAtDiscovery = {}) =>
     /\ pc = "done"
     /\ transcript = << [kind |-> "NoFiles", src |-> <<>>,
                         path |-> [dir |-> <<"cwd", "tflite">>, name |-> <<>>],
                         text |-> ""] >>
     /\ tflite_files = <<>>
     /\ status = <<>>
     /\ invocations = <<>>
     /\ running = {}
     /\ written = {}

C3_Witness ==
  /\ pc = "done"
  /\ dirState = "present"
  /\ listed = {<<"a", "txt">>}
  /\ Len(transcript) = 1

\* C4 as stated: a missing or unreadable source directory ends the run in an
\* error state, distinct from the "no files found" outcome.
C4_Original ==
  (dirState # "present" /\ pc # "start") =>
     /\ pc = "raised"
     /\ \A k \in 1..Len(transcript) : transcript[k].kind # "NoFiles"

\* C4 amended: a missing or unreadable source directory signals no error; the
\* glob yields nothing and the run ends with the informational "no files
\* found" outcome before any job starts, as for a directory with no match.
C4_Amended ==
  (dirState # "present" /\ pc # "start") =>
     /\ pc = "done"
     /\ Len(transcript) = 1
     /\ transcript[1].kind = "NoFiles"
     /\ tflite_files = <<>>
     /\ invocations = <<>>
     /\ running = {}

C4_Witness ==
  /\ pc = "done"
  /\ dirState = "unreadable"
  /\ <<"a", "tflite">> \in listed

\* C5: a tool that cannot be run at all (tf2onnx missing) is never recorded
\* as an ordinary per-job Failed status.
C5_ToolErrorDistinct ==
  ~tf2onnx_installed => \A i \in Jobs : status[i] # "Failed"

C6_Inv ==
  \A i \in Jobs :
    i < idx =>
      /\ status[i] = "Succeeded" <=> returncodes[i] = 0
      /\ status[i] = "Failed" <=> returncodes[i] # 0

C6_Step ==
  (pc = "report" /\ pc' # "report") =>
     /\ result.returncode = 0 =>
          transcript' = Append(transcript,
             [kind |-> "Success", src |-> <<>>,
              path |-> [dir |-> <<"cwd">>, name |-> onnx_file.name], text |-> ""])
     /\ result.returncode # 0 =>
          transcript' = transcript \o
             << [kind |-> "Error", src |-> tflite_files[idx], path |-> NoPath, text |-> ""],
                [kind |-> "Stderr", src |-> <<>>, path |-> NoPath, text |-> result.stderr] >>

\* C6: the exit code alone decides the outcome: a job is Succeeded, with a
\* success notice naming the absolute target path, iff its exit code is 0;
\* otherwise it is Failed, with an error notice naming the source file
\* followed by the captured stderr; the captured text never changes this.
C6_ExitCodeSole == []C6_Inv /\ [][C6_Step]_vars

C6_Witness ==
  /\ pc \in {"loop", "done"}
  /\ idx = 3
  /\ returncodes = <<1, 0>>
  /\ status = <<"Failed", "Succeeded">>
  /\ result.stderr = "text"
  /\ transcript[3].text = ""

\* C7 as stated: every run ends normally with every job terminal.
C7_Original == Terminated => (pc = "done" /\ AllTerminal)

C7_StatusStep ==
  pc # "start" =>
    /\ DOMAIN status' = DOMAIN status
    /\ \A i \in DOMAIN status :
         \/ status'[i] = status[i]
         \/ status[i] = "Pending" /\ status'[i] \in {"Succeeded", "Failed"}

\* C7 amended: with every child terminating, every run ends; it ends normally
\* unless a subprocess.run call itself raises (the run then ends raised at that
\* call, never because of an exit code); a run that ends normally leaves every
\* job Succeeded or Failed; a status only moves from Pending to Succeeded or
\* Failed and never changes afterwards.
C7_Amended ==
  /\ [](pc = "done" => AllTerminal)
  /\ [](pc = "raised" => Len(invocations) = Len(returncodes) + 1)
  /\ [][C7_StatusStep]_vars
  /\ [][(pc' = "raised" /\ pc # "raised") => pc = "run"]_vars
  /\ <>Terminated

C7_Witness ==
  /\ pc = "done"
  /\ Len(tflite_files) = 3
  /\ status[1] = "Failed"
  /\ status[3] = "Failed"

C8_Step ==
  Len(invocations') > Len(invocations) =>
     /\ running = {}
     /\ Len(returncodes) = Len(invocations)
     /\ Len(invocations) = idx - 1
     /\ \A i \in 1..Len(invocations) : status[i] # "Pending"
     /\ invocations'[Len(invocations) + 1].tflite.name = tflite_files[Len(invocations) + 1]

\* C8: execution is sequential: at most one converter subprocess is in flight,
\* and the subprocess for the next file in discovery order is launched only
\* after the previous one has terminated and its outcome has been reported.
C8_Sequential ==
  /\ [](Cardinality(running) <= 1)
  /\ [](pc # "wait" => running = {})
  /\ [][C8_Step]_vars

C8_Witness ==
  /\ pc = "wait"
  /\ Len(invocations) = 2
  /\ Cardinality(running) = 1

\* the k-th notice belongs to file (k+1) \div 2: "Converting" at odd places,
\* that file's outcome at even places
C9_Pattern ==
  /\ Len(Notices) <= 2 * Len(tflite_files)
  /\ \A k \in 1..Len(Notices) :
       LET f == tflite_files[(k + 1) \div 2] IN
         IF k % 2 = 1
         THEN Notices[k].kind = "Converting" /\ Notices[k].src = f
         ELSE \/ Notices[k].kind = "Error" /\ Notices[k].src = f
              \/ /\ Notices[k].kind = "Success"
                 /\ Notices[k].path.name = Stem(f) \o <<"onnx">>
  /\ \A k \in 1..Len(transcript) :
       transcript[k].kind = "Stderr" => k > 1 /\ transcript[k - 1].kind = "Error"
  \* a notice before each launch, an outcome only after a termination
  /\ Len(invocations) <= (Len(Notices) + 1) \div 2
  /\ Len(Notices) \div 2 <= Len(returncodes)

\* C9 as stated: every discovered file gets one "Converting" notice followed
\* by one outcome notice.
C9_Original ==
  /\ C9_Pattern
  /\ Terminated => Len(Notices) = 2 * Len(tflite_files)

\* C9 amended: the transcript is always a prefix of Converting(f1), outcome(f1),
\* Converting(f2), ... in discovery order, each Converting notice printed
\* before its launch and no outcome without it; a run that returns normally
\* has exactly one Converting and one outcome notice per file; a run aborted
\* by a raising subprocess.run ends with a Converting notice without outcome.
C9_Amended ==
  /\ C9_Pattern
  /\ pc = "done" => Len(Notices) = 2 * Len(tflite_files)
  /\ pc = "raised" => Len(Notices) % 2 = 1

C9_Witness ==
  /\ pc = "done"
  /\ Len(tflite_files) = 2
  /\ Len(Notices) = 4
  /\ Notices[2].kind = "Error"
  /\ Notices[4].kind = "Success"

\* C10: distinct discovered files derive distinct targets, and no output file
\* is written by two jobs of one run.
C10_DistinctTargets ==
  /\ \A i, j \in Jobs :
       i # j => OnnxFile(tflite_files[i]) # OnnxFile(tflite_files[j])
  /\ \A w1, w2 \in written : w1[1] = w2[1] => w1[2] = w2[2]
====
